---- MODULE Spec2Model ----
(***************************************************************************)
(* A model of pkg/shortutil/shortutil.go: the checksum functions, the 8.3  *)
(* short-name derivation, the variant generator, the wordlist loop of      *)
(* ChecksumWords and the two subcommands of Run.                           *)
(*                                                                         *)
(* A Go string is modelled as the sequence of its Unicode code points      *)
(* (the input is valid UTF-8); where the code works on bytes (len, f[i])   *)
(* the UTF-8 encoding of the code points is used.                          *)
(***************************************************************************)
EXTENDS Integers, Sequences, FiniteSets, TLC

\* The number of lines of the wordlist file.
MaxLines == 2

\* The longest file name given to the one-off checksum subcommand.
MaxNameLen == 3

(***************************************************************************)
(* Sequences                                                               *)
(***************************************************************************)
Range(s) == {s[i] : i \in 1..Len(s)}

RECURSIVE Flatten(_)
Flatten(ss) == IF ss = <<>> THEN <<>> ELSE Head(ss) \o Flatten(Tail(ss))

MapSeq(F(_), s) == [i \in 1..Len(s) |-> F(s[i])]

\* s[from..] and s[..to] of Go, on 1-based sequences.
Drop(s, n) == SubSeq(s, n + 1, Len(s))

Take(s, n) == SubSeq(s, 1, n)

\* All the orders in which a Go map with the key set S can be ranged over.
Orderings(S) == {p \in [1..Cardinality(S) -> S] : \A x \in S : \E i \in 1..Cardinality(S) : p[i] = x}

\* All the sequences over S of length at most n.
SeqsUpTo(S, n) == UNION {[1..k -> S] : k \in 0..n}

(***************************************************************************)
(* Fixed-width integers                                                    *)
(***************************************************************************)
U8(x) == x % 256

U16(x) == x % 65536

RECURSIVE Xor(_, _)
Xor(a, b) == IF a = 0 THEN b ELSE IF b = 0 THEN a ELSE (((a % 2) + (b % 2)) % 2) + 2 * Xor(a \div 2, b \div 2)

\* int32(a) * b wrapped to 32 bits and read as a signed value, for
\* 0 <= a < 2^16 and 0 <= b < 2^30, computed on 15-bit limbs.
MulInt32(a, b) ==
    LET B  == 32768
        a0 == a % B
        a1 == a \div B
        b0 == b % B
        b1 == b \div B
        p0 == a0 * b0
        p1 == a0 * b1 + a1 * b0 + p0 \div B
        p2 == a1 * b1 + p1 \div B
        d0 == p0 % B
        d1 == p1 % B
        d2 == p2 % 4
    IN  IF d2 >= 2 THEN d0 + d1 * B + (d2 - 4) * B * B ELSE d0 + d1 * B + d2 * B * B

\* (uint64(a) * uint64(b)) >> 60 for 0 <= a, b < 2^31, on 15-bit limbs.
MulShift60(a, b) ==
    LET B  == 32768
        a0 == a % B
        a1 == (a \div B) % B
        a2 == a \div (B * B)
        b0 == b % B
        b1 == (b \div B) % B
        b2 == b \div (B * B)
        p0 == a0 * b0
        p1 == a0 * b1 + a1 * b0 + p0 \div B
        p2 == a0 * b2 + a1 * b1 + a2 * b0 + p1 \div B
        p3 == a1 * b2 + a2 * b1 + p2 \div B
        p4 == a2 * b2 + p3 \div B
    IN  p4

\* int32(q * uint64(1000000007)) for the 2-bit q that a 60-bit shift leaves.
Int32TimesPrime(q) == IF q = 3 THEN (0 - 1294967275) ELSE q * 1000000007

Abs(x) == IF x < 0 THEN 0 - x ELSE x

\* The nibble reversal both 16-bit filesystem checksums end with.
NibbleSwap(ck) ==
    ((ck \div 4096) % 16) + ((ck \div 256) % 16) * 16 + ((ck \div 16) % 16) * 256 + (ck % 16) * 4096

\* fmt.Sprintf("%04X", x) and ("%02X", x): upper-case hexadecimal digits.
HexDigit(d) == IF d < 10 THEN 48 + d ELSE 55 + d

Hex4(x) == <<HexDigit((x \div 4096) % 16), HexDigit((x \div 256) % 16), HexDigit((x \div 16) % 16), HexDigit(x % 16)>>

Hex2(x) == <<HexDigit((x \div 16) % 16), HexDigit(x % 16)>>

(***************************************************************************)
(* Runes, UTF-8 and the Unicode tables, for ASCII and the letters          *)
(* C-cedilla, E-acute, O/U-diaeresis, G-breve, S-cedilla, dotted capital I *)
(* and dotless i (both cases) and their combining marks.                   *)
(***************************************************************************)
RuneLen(c) == IF c < 128 THEN 1 ELSE IF c < 2048 THEN 2 ELSE 3

Utf8(c) ==
    IF c < 128 THEN <<c>>
    ELSE IF c < 2048 THEN <<192 + c \div 64, 128 + (c % 64)>>
    ELSE <<224 + c \div 4096, 128 + ((c \div 64) % 64), 128 + (c % 64)>>

\* []byte(s): what f[i] and len(f) see.
Bytes(s) == Flatten(MapSeq(Utf8, s))

\* len(s)
ByteLen(s) == Len(Bytes(s))

\* unicode.ToUpper
ToUpperRune(c) ==
    IF c \in 97..122 THEN c - 32
    ELSE IF c \in 224..254 /\ c # 247 THEN c - 32
    ELSE IF c \in {287, 351} THEN c - 1
    ELSE IF c = 305 THEN 73
    ELSE IF c = 255 THEN 376
    ELSE IF c = 181 THEN 924
    ELSE c

\* unicode.ToLower
ToLowerRune(c) ==
    IF c \in 65..90 THEN c + 32
    ELSE IF c \in 192..222 /\ c # 215 THEN c + 32
    ELSE IF c \in {286, 350} THEN c + 1
    ELSE IF c = 304 THEN 105
    ELSE IF c = 376 THEN 255
    ELSE c

\* strings.ToUpper, strings.ToLower
ToUpper(s) == MapSeq(ToUpperRune, s)

ToLower(s) == MapSeq(ToLowerRune, s)

\* unicode.Is(unicode.Mn, r): the combining diacritical marks.
IsMn(c) == c \in 768..879

\* The canonical decomposition of one rune (norm.NFD). NFD also reorders
\* runs of combining marks, which ToASCII then drops whatever their order.
Decompose(c) ==
    CASE c = 199 -> <<67, 807>>
      [] c = 201 -> <<69, 769>>
      [] c = 214 -> <<79, 776>>
      [] c = 220 -> <<85, 776>>
      [] c = 231 -> <<99, 807>>
      [] c = 233 -> <<101, 769>>
      [] c = 246 -> <<111, 776>>
      [] c = 252 -> <<117, 776>>
      [] c = 286 -> <<71, 774>>
      [] c = 287 -> <<103, 774>>
      [] c = 304 -> <<73, 775>>
      [] c = 350 -> <<83, 807>>
      [] c = 351 -> <<115, 807>>
      [] OTHER -> <<c>>

NFD(s) == Flatten(MapSeq(Decompose, s))

\* unicode.IsSpace, which strings.TrimSpace trims.
Spaces == {9, 10, 11, 12, 13, 32, 133, 160}

(***************************************************************************)
(* The checksums                                                           *)
(***************************************************************************)
RECURSIVE ChecksumAcc(_, _)
ChecksumAcc(ck, f) == IF f = <<>> THEN ck ELSE ChecksumAcc(U16(ck * 37 + U16(Head(f))), Tail(f))

Checksum(f) ==
    LET ck == ChecksumAcc(0, f)
        t0 == Abs(MulInt32(ck, 314159269))
        t  == t0 - Int32TimesPrime(MulShift60(t0, 1152921497))
    IN  Hex4(NibbleSwap(U16(t)))


RECURSIVE ChecksumOriginalAcc(_, _, _)
ChecksumOriginalAcc(ck, f, i) ==
    IF i >= Len(f) THEN ck
    ELSE LET hi == f[i + 1] * 256
             c1 == IF ck % 2 = 1 THEN U16(32768 + (ck \div 2) + hi) ELSE U16((ck \div 2) + hi)
             c2 == IF i + 1 < Len(f) THEN U16(c1 + f[i + 2]) ELSE c1
         IN  ChecksumOriginalAcc(c2, f, i + 2)

\* ChecksumOriginal works on the bytes of f and reads f[0] and f[1] first:
\* on fewer than two bytes the index is out of range and the program panics.
ChecksumOriginalPanics(f) == ByteLen(f) < 2

ChecksumOriginal(f) ==
    LET b == Bytes(f)
    IN  Hex4(NibbleSwap(ChecksumOriginalAcc(U16(b[1] * 256 + b[2]), b, 2)))

RECURSIVE ChecksumWin95Acc(_, _)
ChecksumWin95Acc(sum, f) == IF f = <<>> THEN sum ELSE ChecksumWin95Acc(U8(sum + U8(Head(f))), Tail(f))

ChecksumWin95(f) == Hex2(ChecksumWin95Acc(0, f))

\* i is the byte offset of the rune, as range over a string yields it.
RECURSIVE ChecksumNTAcc(_, _, _)
ChecksumNTAcc(sum, f, i) ==
    IF f = <<>> THEN sum
    ELSE ChecksumNTAcc(U16(sum + U16(Head(f)) * U16(i + 1)), Tail(f), i + RuneLen(Head(f)))

ChecksumNT(f) == Hex4(Xor(ChecksumNTAcc(0, f, 0), 42405))

RECURSIVE ChecksumFAT32Acc(_, _)
ChecksumFAT32Acc(sum, f) ==
    IF f = <<>> THEN sum
    ELSE ChecksumFAT32Acc(U8((sum \div 2) + (sum % 2) * 128 + U8(Head(f))), Tail(f))

ChecksumFAT32(f) == Hex2(ChecksumFAT32Acc(0, f))

(***************************************************************************)
(* ToASCII, GenerateVariants, Gen8dot3                                     *)
(***************************************************************************)
ToASCII(s) == SelectSeq(NFD(s), LAMBDA r : ~IsMn(r) /\ r <= 127)

\* strings.NewReplacer("ı","i", "İ","I", "ö","o", ...).Replace
TurkishRune(c) ==
    CASE c = 305 -> 105
      [] c = 304 -> 73
      [] c = 246 -> 111
      [] c = 214 -> 79
      [] c = 252 -> 117
      [] c = 220 -> 85
      [] c = 351 -> 115
      [] c = 350 -> 83
      [] c = 287 -> 103
      [] c = 286 -> 71
      [] c = 231 -> 99
      [] c = 199 -> 67
      [] OTHER -> c

Turkish(s) == MapSeq(TurkishRune, s)

\* regexp [^a-zA-Z0-9_.-] replaced by ""
IsAlphanum(c) == c \in (97..122) \cup (65..90) \cup (48..57) \cup {95, 46, 45}

NonAlphanumRemoved(s) == SelectSeq(s, IsAlphanum)

\* The keys of the variants map, before the range that builds out.
VariantKeys(s) == {s, ToLower(s), ToUpper(s), ToASCII(s), Turkish(s), NonAlphanumRemoved(s)}

\* GenerateVariants without the len(v) > 0 test.
GenerateVariantsUnfiltered(s) == Orderings(VariantKeys(s))

\* GenerateVariants ranges over the map, whose order Go leaves open: every
\* slice it can return.
GenerateVariants(s) == Orderings({v \in VariantKeys(s) : Len(v) > 0})

\* shortReplacer: space and dot are deleted, : + , ; = [ ] become underscores.
ShortReplaceRune(c) ==
    IF c \in {32, 46} THEN <<>>
    ELSE IF c \in {58, 43, 44, 59, 61, 91, 93} THEN <<95>>
    ELSE <<c>>

ShortReplace(s) == Flatten(MapSeq(ShortReplaceRune, s))

Min(a, b) == IF a < b THEN a ELSE b

\* Gen8dot3 with len(file) >= 8 for len(file) > 8.
Gen8dot3OffByOne(file, ext) ==
    LET fu == ToUpper(file)
        fr == ShortReplace(fu)
        eu == ToUpper(ext)
        er == ShortReplace(eu)
        r  == ByteLen(file) >= 8 \/ ByteLen(ext) > 3 \/ fu # fr \/ eu # er
    IN  [required |-> r, f83 |-> Take(Bytes(fr), Min(ByteLen(fr), 6)), e83 |-> Take(Bytes(er), Min(ByteLen(er), 3))]

\* The result's names are byte strings: fr[:6] cuts bytes, not runes.
Gen8dot3(file, ext) ==
    LET fu == ToUpper(file)
        fr == ShortReplace(fu)
        eu == ToUpper(ext)
        er == ShortReplace(eu)
        r  == ByteLen(file) > 8 \/ ByteLen(ext) > 3 \/ fu # fr \/ eu # er
    IN  [required |-> r, f83 |-> Take(Bytes(fr), Min(ByteLen(fr), 6)), e83 |-> Take(Bytes(er), Min(ByteLen(er), 3))]

Gen8dot3Unicode(file, ext) ==
    LET fu == ToUpper(file)
        fr == ToASCII(ShortReplace(fu))
        eu == ToUpper(ext)
        er == ToASCII(ShortReplace(eu))
        r  == ByteLen(file) > 8 \/ ByteLen(ext) > 3 \/ fu # fr \/ eu # er
    IN  [required |-> r, f83 |-> Take(Bytes(fr), Min(ByteLen(fr), 6)), e83 |-> Take(Bytes(er), Min(ByteLen(er), 3))]

(***************************************************************************)
(* The library functions ChecksumWords calls                               *)
(***************************************************************************)
IsHex(c) == c \in (48..57) \cup (97..102) \cup (65..70)

UnHex(c) == IF c \in 48..57 THEN c - 48 ELSE IF c \in 97..102 THEN c - 87 ELSE c - 55

\* The first pass of url.unescape: every % is followed by two hex digits.
RECURSIVE EscapesValid(_)
EscapesValid(s) ==
    IF s = <<>> THEN TRUE
    ELSE IF Head(s) = 37
         THEN Len(s) >= 3 /\ IsHex(s[2]) /\ IsHex(s[3]) /\ EscapesValid(Drop(s, 3))
         ELSE EscapesValid(Tail(s))

\* The second pass: each %XX becomes the byte XX (an ASCII rune here; a byte
\* above 127 that completes no UTF-8 sequence reads back as U+FFFD).
RECURSIVE UnescapeBytes(_)
UnescapeBytes(s) ==
    IF s = <<>> THEN <<>>
    ELSE IF Head(s) = 37
         THEN LET b == UnHex(s[2]) * 16 + UnHex(s[3])
              IN  <<IF b < 128 THEN b ELSE 65533>> \o UnescapeBytes(Drop(s, 3))
         ELSE <<Head(s)>> \o UnescapeBytes(Tail(s))

\* url.PathUnescape: ("", err) on a malformed escape.
PathUnescape(s) ==
    IF EscapesValid(s) THEN [val |-> UnescapeBytes(s), err |-> FALSE]
    ELSE [val |-> <<>>, err |-> TRUE]

\* The largest i with s[i] = c, 0 when there is none (strings.LastIndex + 1).
RECURSIVE LastIndex(_, _)
LastIndex(s, c) == IF s = <<>> THEN 0 ELSE IF s[Len(s)] = c THEN Len(s) ELSE LastIndex(Take(s, Len(s) - 1), c)

RECURSIVE TrimRight(_, _)
TrimRight(s, cut) == IF s # <<>> /\ s[Len(s)] \in cut THEN TrimRight(Take(s, Len(s) - 1), cut) ELSE s

RECURSIVE TrimLeft(_, _)
TrimLeft(s, cut) == IF s # <<>> /\ Head(s) \in cut THEN TrimLeft(Tail(s), cut) ELSE s

\* path.Base
PathBase(p) ==
    IF p = <<>> THEN <<46>>
    ELSE LET t == TrimRight(p, {47})
             b == Drop(t, LastIndex(t, 47))
         IN  IF b = <<>> THEN <<47>> ELSE b

\* paramRegex = [?;#&\r\n]
IsParam(c) == c \in {63, 59, 35, 38, 13, 10}

\* paramRegex.Split(w, 2)[0]: the text before the first match.
RECURSIVE SplitFirst(_)
SplitFirst(w) == IF w = <<>> \/ IsParam(Head(w)) THEN <<>> ELSE <<Head(w)>> \o SplitFirst(Tail(w))

TrimSpace(s) == TrimLeft(TrimRight(s, Spaces), Spaces)

\* strings.ReplaceAll(w, "\t", "")
RemoveTabs(s) == SelectSeq(s, LAMBDA c : c # 9)


(***************************************************************************)
(* The loop body of ChecksumWords                                          *)
(***************************************************************************)
\* w, _ := url.PathUnescape(s.Text()); w, _ = url.PathUnescape(w)
Decode(line) == PathUnescape(PathUnescape(line).val).val

\* path.Base, paramRegex.Split(w, 2)[0], TrimSpace, ReplaceAll(w, "\t", "")
Sanitize(u) == RemoveTabs(TrimSpace(SplitFirst(PathBase(u))))

\* The split without the w[0] != '.' test.
SplitWordAnyLastDot(w) ==
    LET p == LastIndex(w, 46)
    IN  IF p > 1 THEN [f |-> Take(w, p - 1), e |-> Drop(w, p)] ELSE [f |-> w, e |-> <<>>]

\* if p := strings.LastIndex(w, "."); p > 0 && w[0] != '.'
SplitWord(w) ==
    LET p == LastIndex(w, 46)
    IN  IF p > 1 /\ w[1] # 46 THEN [f |-> Take(w, p - 1), e |-> Drop(w, p)] ELSE [f |-> w, e |-> <<>>]

\* vs, the set of checksums of the variants, for one slice GenerateVariants returned.
VariantChecksums(vl, variants) == IF variants THEN {Checksum(vl[k]) : k \in DOMAIN vl} ELSE {}

\* c, the concatenation of vs in each order the range over the map can take.
ChecksumStrings(w, variants) ==
    UNION {{Flatten(o) : o \in Orderings(VariantChecksums(vl, variants))} : vl \in GenerateVariants(w)}

\* The iteration without the if !r { continue }.
ChecksumWordsStepUngated(acc, line, c) ==
    LET w  == Sanitize(Decode(line))
        fe == SplitWord(w)
        g  == Gen8dot3Unicode(fe.f, fe.e)
    IN  Append(acc, [checksum |-> c, filename |-> fe.f, extension |-> fe.e,
                     filename83 |-> g.f83, extension83 |-> g.e83])

\* One iteration: wc after the line, given the checksum string c built for it.
ChecksumWordsStep(acc, line, c) ==
    LET w  == Sanitize(Decode(line))
        fe == SplitWord(w)
        g  == Gen8dot3Unicode(fe.f, fe.e)
    IN  IF ~g.required THEN acc
        ELSE Append(acc, [checksum |-> c, filename |-> fe.f, extension |-> fe.e,
                          filename83 |-> g.f83, extension83 |-> g.e83])

(***************************************************************************)
(* The output loop of Run                                                  *)
(***************************************************************************)
\* "#SHORTSCAN#"
Header == <<35, 83, 72, 79, 82, 84, 83, 67, 65, 78, 35>>

\* The iteration that never finds the entry in words.
OutputEntryNoLookup(st, rec, keepCase, uniq) ==
    LET f  == IF keepCase THEN rec.filename ELSE ToUpper(rec.filename)
        e  == IF keepCase THEN rec.extension ELSE ToUpper(rec.extension)
        fe == f \o <<46>> \o e
        row == <<rec.checksum, rec.filename83, rec.extension83, f, e>>
    IN  [words |-> IF uniq THEN st.words \cup {fe} ELSE st.words, out |-> Append(st.out, row)]

\* The iteration that keys words by the name as read, whatever KeepCase is.
OutputEntryRawKey(st, rec, keepCase, uniq) ==
    LET f  == IF keepCase THEN rec.filename ELSE ToUpper(rec.filename)
        e  == IF keepCase THEN rec.extension ELSE ToUpper(rec.extension)
        fe == rec.filename \o <<46>> \o rec.extension
        row == <<rec.checksum, rec.filename83, rec.extension83, f, e>>
    IN  IF uniq /\ fe \in st.words THEN st
        ELSE [words |-> IF uniq THEN st.words \cup {fe} ELSE st.words, out |-> Append(st.out, row)]

\* One iteration of the range over the records: st is [words, out].
OutputEntry(st, rec, keepCase, uniq) ==
    LET f  == IF keepCase THEN rec.filename ELSE ToUpper(rec.filename)
        e  == IF keepCase THEN rec.extension ELSE ToUpper(rec.extension)
        fe == f \o <<46>> \o e
        row == <<rec.checksum, rec.filename83, rec.extension83, f, e>>
    IN  IF uniq /\ fe \in st.words THEN st
        ELSE [words |-> IF uniq THEN st.words \cup {fe} ELSE st.words, out |-> Append(st.out, row)]

\* The whole loop over the records recs.
RECURSIVE WordlistOutput(_, _, _)
WordlistOutput(recs, keepCase, uniq) ==
    IF recs = <<>> THEN [words |-> {}, out |-> <<>>]
    ELSE OutputEntry(WordlistOutput(Take(recs, Len(recs) - 1), keepCase, uniq), recs[Len(recs)], keepCase, uniq)

(***************************************************************************)
(* Inputs                                                                  *)
(***************************************************************************)
\* "longfilen": a name over eight characters, in three casings.
LongLower == <<108, 111, 110, 103, 102, 105, 108, 101, 110>>

LongMixed == <<76, 111, 110, 103, 102, 105, 108, 101, 110>>

Htm == <<46, 104, 116, 109>>

\* The lines a wordlist is made of.
Lines ==
    { LongLower \o Htm,                          \* longfilen.htm
      LongMixed \o Htm,                          \* Longfilen.htm
      <<82, 69, 80, 79, 82, 84, 46, 84, 88, 84>>, \* REPORT.TXT
      <<>>,                                      \* the empty line
      <<46>>,                                    \* .
      <<32, 9>>,                                 \* space, tab
      <<46, 97, 46, 98, 99, 100, 101>>,           \* .a.bcde
      <<47, 100, 47, 108, 111, 110, 103, 9, 102, 105, 108, 101, 110, 37, 50, 53, 50, 69, 98, 63, 120>>,
                                                 \* /d/long<tab>filen%252Eb?x
      LongLower \o <<37, 122, 122>>,              \* longfilen%zz
      <<37, 50, 53, 122>> \o LongLower,           \* %25zlongfilen
      <<201>> }                                   \* E-acute

Algorithms == {"modern", "original", "win95", "nt", "fat32"}

\* The file names of the checksum subcommand.
Filenames == SeqsUpTo({97, 66, 233}, MaxNameLen)

NoWordlist == [on |-> FALSE, KeepCase |-> FALSE, Uniq |-> FALSE, Variants |-> FALSE]

NoChecksum == [on |-> FALSE, Filename |-> <<>>, Algorithm |-> "modern"]

\* The parsed command line: exactly one subcommand is set.
Args ==
    {[Wordlist |-> [on |-> TRUE, KeepCase |-> k, Uniq |-> u, Variants |-> v], Checksum |-> NoChecksum] :
        k \in BOOLEAN, u \in BOOLEAN, v \in BOOLEAN}
    \cup {[Wordlist |-> NoWordlist, Checksum |-> [on |-> TRUE, Filename |-> n, Algorithm |-> a]] :
        n \in Filenames, a \in Algorithms}

(***************************************************************************)
(* Run                                                                     *)
(***************************************************************************)
VARIABLES args, fh, pos, loop, wc, idx, words, stdout, pc, fn, input, result

vars == <<args, fh, pos, loop, wc, idx, words, stdout, pc, fn, input, result>>

NoLoop == [line |-> <<>>, decoded |-> <<>>, w |-> <<>>, f |-> <<>>, e |-> <<>>, r |-> FALSE]

Init ==
    /\ args \in Args
    /\ fh \in (IF args.Wordlist.on THEN SeqsUpTo(Lines, MaxLines) ELSE {<<>>})
    /\ pos = 0
    /\ loop = NoLoop
    /\ wc = <<>>
    /\ idx = 0
    /\ words = {}
    /\ stdout = <<>>
    /\ pc = "start"
    /\ fn = "Run"
    /\ input = <<>>
    /\ result = <<>>

\* case args.Wordlist != nil, up to the call of ChecksumWords
OpenWordlist ==
    /\ pc = "start"
    /\ args.Wordlist.on
    /\ stdout' = Append(stdout, <<Header>>)
    /\ words' = {}
    /\ pc' = "scan"
    /\ UNCHANGED <<args, fh, pos, loop, wc, idx, fn, input, result>>

\* for s.Scan() { ... }: one line
ScanLine ==
    /\ pc = "scan"
    /\ pos < Len(fh)
    /\ LET line == fh[pos + 1]
           d    == Decode(line)
           w    == Sanitize(d)
           fe   == SplitWord(w)
       IN  /\ \E c \in ChecksumStrings(w, args.Wordlist.Variants) : wc' = ChecksumWordsStep(wc, line, c)
           /\ loop' = [line |-> line, decoded |-> d, w |-> w, f |-> fe.f, e |-> fe.e,
                       r |-> Gen8dot3Unicode(fe.f, fe.e).required]
    /\ pos' = pos + 1
    /\ UNCHANGED <<args, fh, idx, words, stdout, pc, fn, input, result>>

\* s.Scan() returns false: return wc
ScanEnd ==
    /\ pc = "scan"
    /\ pos = Len(fh)
    /\ pc' = "emit"
    /\ UNCHANGED <<args, fh, pos, loop, wc, idx, words, stdout, fn, input, result>>

\* for _, w := range ChecksumWords(...) { ... }: one record
EmitEntry ==
    /\ pc = "emit"
    /\ idx < Len(wc)
    /\ LET st == OutputEntry([words |-> words, out |-> stdout], wc[idx + 1], args.Wordlist.KeepCase, args.Wordlist.Uniq)
       IN  words' = st.words /\ stdout' = st.out
    /\ idx' = idx + 1
    /\ UNCHANGED <<args, fh, pos, loop, wc, pc, fn, input, result>>

EmitEnd ==
    /\ pc = "emit"
    /\ idx = Len(wc)
    /\ pc' = "done"
    /\ UNCHANGED <<args, fh, pos, loop, wc, idx, words, stdout, fn, input, result>>

\* case args.Checksum != nil
RunChecksum ==
    /\ pc = "start"
    /\ args.Checksum.on
    /\ LET f == args.Checksum.Filename
           a == args.Checksum.Algorithm
       IN  IF a = "original" /\ ChecksumOriginalPanics(f)
           THEN pc' = "panic" /\ stdout' = stdout
           ELSE /\ pc' = "done"
                /\ stdout' = Append(stdout, <<CASE a = "original" -> ChecksumOriginal(f)
                                                [] a = "win95" -> ChecksumWin95(f)
                                                [] a = "nt" -> ChecksumNT(f)
                                                [] a = "fat32" -> ChecksumFAT32(f)
                                                [] OTHER -> Checksum(f)>>)
    /\ UNCHANGED <<args, fh, pos, loop, wc, idx, words, fn, input, result>>

Next == OpenWordlist \/ ScanLine \/ ScanEnd \/ EmitEntry \/ EmitEnd \/ RunChecksum

Spec == Init /\ [][Next]_vars


(***************************************************************************)
(* Gen8dot3 and Gen8dot3Unicode called on their own                        *)
(***************************************************************************)
\* The longest generated extension.
MaxExtLen == 1

\* A, a, +, E-acute
GenAlphabet == {65, 97, 43, 201}

GenNames ==
    SeqsUpTo(GenAlphabet, MaxNameLen)
    \cup { <<82, 69, 80, 79, 82, 84>>,                  \* REPORT
           <<65, 66, 67, 68, 69, 70, 71, 72>>,          \* ABCDEFGH
           <<65, 66, 67, 68, 69, 70, 71, 72, 73>>,      \* ABCDEFGHI
           <<201, 201, 201, 201, 201>>,                 \* five E-acute
           <<82, 69, 32, 80, 46, 84>> }                 \* RE P.T

GenExts ==
    SeqsUpTo(GenAlphabet, MaxExtLen)
    \cup { <<84, 88, 84>>,          \* TXT
           <<72, 84, 77, 76>>,      \* HTML
           <<201, 201>>,            \* two E-acute
           <<116, 120, 116>> }      \* txt

NoArgs == [Wordlist |-> NoWordlist, Checksum |-> NoChecksum]

InitPure(inputs) ==
    /\ args = NoArgs
    /\ fh = <<>>
    /\ pos = 0
    /\ loop = NoLoop
    /\ wc = <<>>
    /\ idx = 0
    /\ words = {}
    /\ stdout = <<>>
    /\ pc = "call"
    /\ fn = "none"
    /\ input \in inputs
    /\ result = <<>>

InitGen == InitPure(GenNames \X GenExts)

CallGen8dot3 ==
    /\ pc = "call"
    /\ fn' = "Gen8dot3"
    /\ result' = Gen8dot3(input[1], input[2])
    /\ pc' = "returned"
    /\ UNCHANGED <<args, fh, pos, loop, wc, idx, words, stdout, input>>

CallGen8dot3Unicode ==
    /\ pc = "call"
    /\ fn' = "Gen8dot3Unicode"
    /\ result' = Gen8dot3Unicode(input[1], input[2])
    /\ pc' = "returned"
    /\ UNCHANGED <<args, fh, pos, loop, wc, idx, words, stdout, input>>

NextGen == CallGen8dot3 \/ CallGen8dot3Unicode

SpecGen == InitGen /\ [][NextGen]_vars

(***************************************************************************)
(* GenerateVariants called on its own                                      *)
(***************************************************************************)
\* The longest word given to GenerateVariants.
MaxWordLen == 2

\* A, a, space, dot, E-acute, dotless i
VariantAlphabet == {65, 97, 32, 46, 233, 305}

InitVariants == InitPure(SeqsUpTo(VariantAlphabet, MaxWordLen))

CallGenerateVariants ==
    /\ pc = "call"
    /\ fn' = "GenerateVariants"
    /\ result' \in GenerateVariants(input)
    /\ pc' = "returned"
    /\ UNCHANGED <<args, fh, pos, loop, wc, idx, words, stdout, input>>

NextVariants == CallGenerateVariants

SpecVariants == InitVariants /\ [][NextVariants]_vars


(***************************************************************************)
(* Properties of the wordlist subcommand                                   *)
(***************************************************************************)
\* What the loop body makes of a line.
LineSplit(line) == SplitWord(Sanitize(Decode(line)))

\* The name and extension of a line and whether Gen8dot3Unicode requires a short name.
LineGate(line) ==
    LET fe == LineSplit(line)
    IN  [required |-> Gen8dot3Unicode(fe.f, fe.e).required, fe |-> fe]

LineRequired(line) == LineGate(line).required

\* The names and extensions of the required lines among the first n, in order.
RequiredSplits(n) ==
    LET F[i \in 0..n] ==
            IF i = 0 THEN <<>>
            ELSE LET g == LineGate(fh[i]) IN IF g.required THEN Append(F[i - 1], g.fe) ELSE F[i - 1]
    IN  F[n]

\* The rows printed after the header.
Rows == Tail(stdout)

\* The name.extension pair of a record as the flags print it.
CasedPair(rec) ==
    IF args.Wordlist.KeepCase THEN <<rec.filename, rec.extension>>
    ELSE <<ToUpper(rec.filename), ToUpper(rec.extension)>>

Count(seq, P(_)) == Cardinality({i \in 1..Len(seq) : P(seq[i])})

\* C1: while ChecksumWords runs and when it returns, the records of wc are,
\* in order, those of the lines read so far for which Gen8dot3Unicode on the
\* line's name and extension returns required: one record for each such
\* line and none for any other line.
C1_RecordIffRequired ==
    pc = "scan" =>
        [i \in 1..Len(wc) |-> [f |-> wc[i].filename, e |-> wc[i].extension]]
            = RequiredSplits(pos)

C1_Witness ==
    /\ pc = "scan"
    /\ pos = 2
    /\ Len(fh) = 2
    /\ LineRequired(fh[1])
    /\ ~LineRequired(fh[2])
    /\ Len(wc) = 1

\* C2: with Uniq no two printed rows share a name.extension pair, and once
\* the run is done a pair that n records produce is printed once with Uniq
\* and n times without.
C2_Dedup ==
    args.Wordlist.on /\ pc \in {"emit", "done"} =>
        /\ args.Wordlist.Uniq =>
              \A i, j \in 1..Len(Rows) : (Rows[i][4] = Rows[j][4] /\ Rows[i][5] = Rows[j][5]) => i = j
        /\ pc = "done" =>
              \A k \in 1..Len(wc) :
                  Count(Rows, LAMBDA row : <<row[4], row[5]>> = CasedPair(wc[k]))
                      = IF args.Wordlist.Uniq THEN 1
                        ELSE Count(wc, LAMBDA rec : CasedPair(rec) = CasedPair(wc[k]))

C2_Witness ==
    /\ pc = "done"
    /\ args.Wordlist.Uniq
    /\ Len(wc) = 2
    /\ CasedPair(wc[1]) = CasedPair(wc[2])
    /\ Len(Rows) = 1

\* C3: without Variants the checksum of a record is the modern checksum of
\* the sanitized word, and so is not empty.
C3_PlainChecksumWithoutVariants ==
    (args.Wordlist.on /\ ~args.Wordlist.Variants /\ pos > 0 /\ loop.r) =>
        wc[Len(wc)].checksum = Checksum(loop.w)

\* C4: the checksum subcommand with the original algorithm never panics on
\* a file name of fewer than two bytes.
C4_OriginalGuardsShortInput ==
    (args.Checksum.on /\ args.Checksum.Algorithm = "original" /\ ByteLen(args.Checksum.Filename) < 2) =>
        pc # "panic"

\* Unescaping that leaves a malformed escape as it stands.
RECURSIVE LenientUnescape(_)
LenientUnescape(s) ==
    IF s = <<>> THEN <<>>
    ELSE IF Head(s) = 37 /\ Len(s) >= 3 /\ IsHex(s[2]) /\ IsHex(s[3])
         THEN <<UnHex(s[2]) * 16 + UnHex(s[3])>> \o LenientUnescape(Drop(s, 3))
         ELSE <<Head(s)>> \o LenientUnescape(Tail(s))

\* C6: when either unescape of a line fails, the word that goes on to be
\* sanitized is the line or the line as far as it could be decoded.
C6_DecodeErrorKeepsWord ==
    (pos > 0 /\ (PathUnescape(loop.line).err \/ PathUnescape(PathUnescape(loop.line).val).err)) =>
        loop.decoded \in {loop.line, LenientUnescape(loop.line), LenientUnescape(LenientUnescape(loop.line))}

\* C7: a line whose sanitized word is empty or made of dots only adds no record.
C7_SeparatorOnlySkipped ==
    [][(pos' = pos + 1 /\ \A i \in 1..Len(loop'.w) : loop'.w[i] = 46) => wc' = wc]_vars

\* The rows with the name and the extension upper-cased.
UpperRows(rows) == [i \in 1..Len(rows) |-> <<rows[i][1], rows[i][2], rows[i][3], ToUpper(rows[i][4]), ToUpper(rows[i][5])>>]

\* The rows whose name.extension pair no earlier row has.
FirstOfPair(rows) ==
    LET first(i) == \A j \in 1..(i - 1) : <<rows[j][4], rows[j][5]>> # <<rows[i][4], rows[i][5]>>
        F[i \in 0..Len(rows)] == IF i = 0 THEN <<>> ELSE IF first(i) THEN Append(F[i - 1], rows[i]) ELSE F[i - 1]
    IN  F[Len(rows)]

\* C9 as claimed: the run with the other value of KeepCase prints as many
\* rows, in the same order, equal but for the case of name and extension.
C9_KeepCaseOnlyCase ==
    (args.Wordlist.on /\ pc = "done") =>
        LET other == WordlistOutput(wc, ~args.Wordlist.KeepCase, args.Wordlist.Uniq).out
        IN  /\ Len(other) = Len(Rows)
            /\ UpperRows(other) = UpperRows(Rows)

\* C9: on the same records, without Uniq the rows of the two values of
\* KeepCase are equal but for the case of name and extension; with Uniq the
\* rows of KeepCase = false are those of KeepCase = true upper-cased, less
\* every row whose upper-cased name.extension pair an earlier row has.
C9_KeepCaseAmended ==
    (args.Wordlist.on /\ pc = "done") =>
        LET keep == WordlistOutput(wc, TRUE, args.Wordlist.Uniq).out
            up   == WordlistOutput(wc, FALSE, args.Wordlist.Uniq).out
        IN  /\ Rows = IF args.Wordlist.KeepCase THEN keep ELSE up
            /\ ~args.Wordlist.Uniq => up = UpperRows(keep)
            /\ args.Wordlist.Uniq => up = FirstOfPair(UpperRows(keep))

C9_Witness ==
    /\ pc = "done"
    /\ args.Wordlist.Uniq
    /\ ~args.Wordlist.KeepCase
    /\ Len(wc) = 2
    /\ wc[1].filename # wc[2].filename
    /\ ToUpper(wc[1].filename) = ToUpper(wc[2].filename)
    /\ wc[1].extension = wc[2].extension
    /\ Len(Rows) = 1

\* C10 as claimed: the word is split at its last dot that is not its first
\* character, and is the name whole only when it has no such dot.
C10_SplitAtLastInteriorDot ==
    pos > 0 =>
        IF \E p \in 2..Len(loop.w) : loop.w[p] = 46
        THEN /\ loop.f \o <<46>> \o loop.e = loop.w
             /\ 46 \notin Range(loop.e)
        ELSE loop.f = loop.w /\ loop.e = <<>>

\* C10: a word that does not begin with a dot and has a dot is split at its
\* last dot; a word that begins with a dot or has no dot is the name whole,
\* with an empty extension; the record of the line carries that split.
C10_SplitAmended ==
    pos > 0 =>
        /\ IF loop.w # <<>> /\ loop.w[1] # 46 /\ 46 \in Range(loop.w)
           THEN /\ loop.f \o <<46>> \o loop.e = loop.w
                /\ 46 \notin Range(loop.e)
           ELSE loop.f = loop.w /\ loop.e = <<>>
        /\ loop.r => (wc[Len(wc)].filename = loop.f /\ wc[Len(wc)].extension = loop.e)

C10_Witness ==
    /\ pos > 0
    /\ Len(loop.w) > 2
    /\ loop.w[1] = 46
    /\ \E p \in 2..Len(loop.w) : loop.w[p] = 46
    /\ loop.r
    /\ wc[Len(wc)].filename = loop.w
    /\ wc[Len(wc)].extension = <<>>

(***************************************************************************)
(* Properties of Gen8dot3 and Gen8dot3Unicode                              *)
(***************************************************************************)
\* The characters shortReplacer deletes or replaces.
Reserved == {32, 46, 58, 43, 44, 59, 61, 91, 93}

Plain(s) == Range(s) \cap Reserved = {} /\ ToUpper(s) = s

\* C5 as claimed: a name of at most 8 and an extension of at most 3
\* characters, upper-case and free of reserved characters, need no short name.
C5_PlainNameNotRequired ==
    (pc = "returned" /\ Len(input[1]) <= 8 /\ Len(input[2]) <= 3 /\ Plain(input[1]) /\ Plain(input[2])) =>
        ~result.required

\* C5: a name of at most 8 and an extension of at most 3 ASCII characters,
\* upper-case and free of reserved characters, need no short name, from
\* either function.
C5_PlainAsciiNameNotRequired ==
    (/\ pc = "returned"
     /\ Len(input[1]) <= 8
     /\ Len(input[2]) <= 3
     /\ Plain(input[1])
     /\ Plain(input[2])
     /\ \A c \in Range(input[1]) \cup Range(input[2]) : c <= 127) =>
        ~result.required

C5_Witness ==
    /\ pc = "returned"
    /\ fn = "Gen8dot3Unicode"
    /\ input = <<(<<82, 69, 80, 79, 82, 84>>), (<<84, 88, 84>>)>>
    /\ ~result.required

(***************************************************************************)
(* Properties of GenerateVariants                                          *)
(***************************************************************************)
\* C8: the slice GenerateVariants returns has no empty string and no string
\* twice, and for a word that is not empty it has the word, its lower case
\* and its upper case.
C8_VariantsDistinctNonEmpty ==
    pc = "returned" =>
        /\ \A i \in 1..Len(result) : result[i] # <<>>
        /\ \A i, j \in 1..Len(result) : result[i] = result[j] => i = j
        /\ input # <<>> => {input, ToLower(input), ToUpper(input)} \subseteq Range(result)

C8_Witness ==
    /\ pc = "returned"
    /\ input = <<65>>
    /\ {<<65>>, <<97>>} \subseteq Range(result)
    /\ Len(result) = 2

====
